---- MODULE Spec2Model ----
(***************************************************************************)
(* Model of the challenge views (challenges/views.py): create_challenge,   *)
(* submit_solution and generate_ai_challenge, with the line-oriented       *)
(* parsing of the AI response done inside generate_ai_challenge.           *)
(*                                                                         *)
(* A Python str is the sequence of the code points (ord) of its            *)
(* characters, so that strip, split, startswith and replace are computed   *)
(* character by character and every Unicode character has one value:       *)
(* "TITLE:" is <<84, 73, 84, 76, 69, 58>>, the newline is 10.              *)
(* Message texts, template names and dictionary keys are never inspected   *)
(* by the code and are kept as atomic strings.                             *)
(*                                                                         *)
(* Every view is behind login_required: requests come from an              *)
(* authenticated user.  Requests are handled one at a time.  The           *)
(* collaborators (generate_new_challenge, get_challenge_feedback, the      *)
(* forms and Model.save) are nondeterministic: each may succeed or raise.  *)
(* The 'topic' POST field only reaches generate_new_challenge and is part  *)
(* of that nondeterminism.  messages holds what the request being handled  *)
(* added.                                                                  *)
(***************************************************************************)
EXTENDS Integers, Sequences, FiniteSets, TLC

(* ---------------------------- bounds ----------------------------------- *)

MaxLines == 3

MaxRecords == 2

(* ------------------------- Python str methods -------------------------- *)

(* The characters str.strip() removes, the 29 with str.isspace():         *)
(* \t \n \x0b \x0c \r, \x1c-\x1f, space, \x85, \xa0, U+1680, U+2000-U+200A,  *)
(* U+2028, U+2029, U+202F, U+205F, U+3000.                                 *)
Whitespace ==
    {9, 10, 11, 12, 13, 28, 29, 30, 31, 32, 133, 160, 5760}
        \cup (8192..8202) \cup {8232, 8233, 8239, 8287, 12288}

strip(s) ==
    LET keep == {i \in 1..Len(s) : s[i] \notin Whitespace}
        lo == CHOOSE i \in keep : \A j \in keep : i <= j
        hi == CHOOSE i \in keep : \A j \in keep : j <= i
    IN  IF keep = {} THEN <<>> ELSE SubSeq(s, lo, hi)

RECURSIVE split(_, _)
split(s, sep) ==
    LET at == {i \in 1..Len(s) : s[i] = sep}
        k == CHOOSE i \in at : \A j \in at : i <= j
    IN  IF at = {} THEN <<s>>
        ELSE <<SubSeq(s, 1, k - 1)>> \o split(SubSeq(s, k + 1, Len(s)), sep)

startswith(s, prefix) ==
    Len(s) >= Len(prefix) /\ SubSeq(s, 1, Len(prefix)) = prefix

RECURSIVE replace(_, _, _)
replace(s, old, new) ==
    IF Len(s) < Len(old) THEN s
    ELSE IF startswith(s, old)
         THEN new \o replace(SubSeq(s, Len(old) + 1, Len(s)), old, new)
         ELSE <<s[1]>> \o replace(Tail(s), old, new)

(* An optional str: Python None, or a str value. *)
None == [isNone |-> TRUE, s |-> <<>>]

Str(s) == [isNone |-> FALSE, s |-> s]

(* dict.get(key): the entry, or None when the key is missing. *)
get(d, key) == IF key \in DOMAIN d THEN d[key] ELSE None

(* Truth value of an optional str: None and "" are false. *)
truthy(v) == ~v.isNone /\ v.s # <<>>

(* ------------------------- literals of the code ------------------------ *)

(* "TITLE:" *)
TITLE_MARKER ==
    <<84, 73, 84, 76, 69, 58>>

(* "DESCRIPTION:" *)
DESCRIPTION_MARKER ==
    <<68, 69, 83, 67, 82, 73, 80, 84, 73, 79, 78, 58>>

(* "HINT" *)
HINT_PREFIX ==
    <<72, 73, 78, 84>>

(* "AI Generated Challenge" *)
default_title ==
    <<65, 73, 32, 71, 101, 110, 101, 114, 97, 116, 101, 100, 32, 67, 104, 97, 108, 108,
    101, 110, 103, 101>>

(* default_hints[0], "Start by breaking down the problem ... take?" *)
default_hint_0 ==
    <<83, 116, 97, 114, 116, 32, 98, 121, 32, 98, 114, 101, 97, 107, 105, 110, 103, 32,
    100, 111, 119, 110, 32, 116, 104, 101, 32, 112, 114, 111, 98, 108, 101, 109, 32, 105,
    110, 116, 111, 32, 115, 109, 97, 108, 108, 101, 114, 32, 112, 97, 114, 116, 115, 46,
    32, 87, 104, 97, 116, 39, 115, 32, 116, 104, 101, 32, 102, 105, 114, 115, 116, 32,
    115, 116, 101, 112, 32, 121, 111, 117, 32, 119, 111, 117, 108, 100, 32, 116, 97, 107,
    101, 63>>

(* default_hints[1], "Consider edge cases ... are you making?" *)
default_hint_1 ==
    <<67, 111, 110, 115, 105, 100, 101, 114, 32, 101, 100, 103, 101, 32, 99, 97, 115, 101,
    115, 32, 97, 110, 100, 32, 104, 111, 119, 32, 121, 111, 117, 114, 32, 115, 111, 108,
    117, 116, 105, 111, 110, 32, 104, 97, 110, 100, 108, 101, 115, 32, 100, 105, 102, 102,
    101, 114, 101, 110, 116, 32, 105, 110, 112, 117, 116, 115, 46, 32, 87, 104, 97, 116,
    32, 97, 115, 115, 117, 109, 112, 116, 105, 111, 110, 115, 32, 97, 114, 101, 32, 121,
    111, 117, 32, 109, 97, 107, 105, 110, 103, 63>>

(* default_hints[2], "Look at your algorithm's efficiency. ... various inputs." *)
default_hint_2 ==
    <<76, 111, 111, 107, 32, 97, 116, 32, 121, 111, 117, 114, 32, 97, 108, 103, 111, 114,
    105, 116, 104, 109, 39, 115, 32, 101, 102, 102, 105, 99, 105, 101, 110, 99, 121, 46,
    32, 67, 97, 110, 32, 121, 111, 117, 32, 111, 112, 116, 105, 109, 105, 122, 101, 32,
    105, 116, 32, 102, 117, 114, 116, 104, 101, 114, 63, 32, 82, 101, 109, 101, 109, 98,
    101, 114, 32, 116, 111, 32, 116, 101, 115, 116, 32, 121, 111, 117, 114, 32, 115, 111,
    108, 117, 116, 105, 111, 110, 32, 119, 105, 116, 104, 32, 118, 97, 114, 105, 111, 117,
    115, 32, 105, 110, 112, 117, 116, 115, 46>>

(* "Our AI assistant is taking a break, but your solution shows real effort, " *)
fallback_prefix ==
    <<79, 117, 114, 32, 65, 73, 32, 97, 115, 115, 105, 115, 116, 97, 110, 116, 32, 105,
    115, 32, 116, 97, 107, 105, 110, 103, 32, 97, 32, 98, 114, 101, 97, 107, 44, 32,
    98, 117, 116, 32, 121, 111, 117, 114, 32, 115, 111, 108, 117, 116, 105, 111, 110, 32,
    115, 104, 111, 119, 115, 32, 114, 101, 97, 108, 32, 101, 102, 102, 111, 114, 116, 44,
    32>>

(* "! Keep exploring different approaches and don't give up." *)
fallback_suffix ==
    <<33, 32, 75, 101, 101, 112, 32, 101, 120, 112, 108, 111, 114, 105, 110, 103, 32, 100,
    105, 102, 102, 101, 114, 101, 110, 116, 32, 97, 112, 112, 114, 111, 97, 99, 104, 101,
    115, 32, 97, 110, 100, 32, 100, 111, 110, 39, 116, 32, 103, 105, 118, 101, 32, 117,
    112, 46>>

default_hints == <<default_hint_0, default_hint_1, default_hint_2>>

(* ------------------ the parsing in generate_ai_challenge --------------- *)

(* f"hint_{i}" for i in range(1, 4) *)
hint_key(i) == CASE i = 1 -> "hint_1" [] i = 2 -> "hint_2" [] i = 3 -> "hint_3"

(* variant: the keys are built with range(0, 3), so hint_0..hint_2 are read *)
ai_hints_of_shifted(result) ==
    [i \in 1..3 |->
        get(result["hints"], IF i = 1 THEN "hint_0" ELSE hint_key(i - 1))]

(* ai_hints = [result["hints"].get(f"hint_{i}") for i in range(1, 4)] *)
ai_hints_of(result) == [i \in 1..3 |-> get(result["hints"], hint_key(i))]

(* variant: a TITLE: line is used only while no title has been set *)
title_after_first(line, title) ==
    IF startswith(line, TITLE_MARKER) /\ title = <<>>
    THEN strip(replace(line, TITLE_MARKER, <<>>))
    ELSE title

(* title after one non-blank, stripped line *)
title_after(line, title) ==
    IF startswith(line, TITLE_MARKER)
    THEN strip(replace(line, TITLE_MARKER, <<>>))
    ELSE title

(* current_section after one non-blank, stripped line *)
section_after(line, current_section) ==
    IF startswith(line, TITLE_MARKER) THEN "title"
    ELSE IF startswith(line, DESCRIPTION_MARKER) THEN "description"
    ELSE current_section

(* description after one non-blank, stripped line *)
description_after(line, current_section, description) ==
    IF startswith(line, TITLE_MARKER) THEN description
    ELSE IF startswith(line, DESCRIPTION_MARKER) THEN description
    ELSE IF current_section = "description" /\ ~startswith(line, HINT_PREFIX)
         THEN description \o line \o <<10>>
    ELSE description

(* variant: the 'continue' is missing, blank lines reach the branches *)
skipped_never(line) == FALSE

(* does the loop skip this line (the 'continue' on a blank stripped line)? *)
skipped(line) == line = <<>>

(* one iteration of 'for line in lines' on the parser state st *)
loop_body(st, raw_line) ==
    LET line == strip(raw_line)
    IN  IF skipped(line) THEN st
        ELSE [title |-> title_after(line, st.title),
              current_section |-> section_after(line, st.current_section),
              description |->
                  description_after(line, st.current_section, st.description)]

(* variant: the test 'and ai_hints[i].strip()' is missing *)
build_hints_unchecked(ai) ==
    [i \in 1..3 |->
        IF truthy(ai[i]) THEN strip(ai[i].s) ELSE default_hints[i]]

(* the hints list: three slots, each from ai_hints or from default_hints *)
build_hints(ai) ==
    [i \in 1..3 |->
        IF truthy(ai[i]) /\ truthy(Str(strip(ai[i].s)))
        THEN strip(ai[i].s)
        ELSE default_hints[i]]

(* variant: title=title, without the placeholder *)
challenge_title_raw(title) == title

(* title=title if title else "AI Generated Challenge" *)
challenge_title(title) == IF title # <<>> THEN title ELSE default_title

(* Challenge(title=..., description=description.strip(), ...) *)
new_ai_challenge(title, description, difficulty, hints, user) ==
    [title |-> challenge_title(title),
     description |-> strip(description),
     difficulty |-> difficulty,
     hints |-> hints,
     created_by |-> user,
     is_ai_generated |-> TRUE,
     is_approved |-> TRUE]

(* ----------------------- submit_solution helpers ----------------------- *)

fallback_feedback(username) == fallback_prefix \o username \o fallback_suffix

(* does the 'Get AI feedback' try block raise?  The call may raise, and a  *)
(* None return value makes the slice ai_feedback[:100] raise.              *)
feedback_raises(feedback) == feedback.raised \/ feedback.text.isNone

(* variant: the except branch does not assign the fallback message *)
ai_feedback_after_silent(feedback, username) ==
    IF feedback_raises(feedback) THEN <<>> ELSE feedback.text.s

(* solution.ai_feedback after the inner try/except *)
ai_feedback_after(feedback, username) ==
    IF feedback_raises(feedback)
    THEN fallback_feedback(username)
    ELSE feedback.text.s

(* ------------------------------ inputs --------------------------------- *)

RECURSIVE join(_, _)
join(ls, sep) ==
    IF Len(ls) = 0 THEN <<>>
    ELSE IF Len(ls) = 1 THEN ls[1]
    ELSE ls[1] \o <<sep>> \o join(Tail(ls), sep)

(* every text of at most n lines taken from LineSet *)
Texts(LineSet, n) ==
    {join(ls, 10) : ls \in UNION {[1..k -> LineSet] : k \in 0..n}}

EmptyDict == [k \in {} |-> None]

ParseLines ==
    { <<>>,                                           \* ""
      <<32, 9>>,                                      \* " \t"
      <<11, 8195>>,                                   \* "\x0b\u2003"
      TITLE_MARKER \o <<32, 65>>,                     \* "TITLE: A"
      TITLE_MARKER,                                   \* "TITLE:"
      <<12288>> \o TITLE_MARKER \o <<11, 66, 160>>,   \* "\u3000TITLE:\x0bB\xa0"
      TITLE_MARKER \o <<32, 65, 32>> \o TITLE_MARKER \o <<32, 66>>,
                                                      \* "TITLE: A TITLE: B"
      DESCRIPTION_MARKER,                             \* "DESCRIPTION:"
      DESCRIPTION_MARKER \o <<32, 120>>,              \* "DESCRIPTION: x"
      <<120>>,                                        \* "x"
      <<32, 233, 32, 122, 13>>,                       \* " \xe9 z\r"
      HINT_PREFIX \o <<95, 49, 58, 32, 104>>,         \* "HINT_1: h"
      <<104, 105, 110, 116>>,                         \* "hint"
      <<120, 32>> \o TITLE_MARKER }                   \* "x TITLE:"

HintKeys == {"hint_1", "hint_2", "hint_3"}

HintValues ==
    { None,
      Str(<<>>),                      \* ""
      Str(<<32, 9>>),                 \* " \t"
      Str(<<8232, 133>>),             \* "\u2028\x85"
      Str(<<32, 97, 32, 233, 10>>),   \* " a \xe9\n"
      Str(<<99>>) }                   \* "c"

HintMaps == UNION {[S -> HintValues] : S \in SUBSET HintKeys}

Ok(raw, hints) ==
    [raised |-> FALSE, value |-> [raw |-> raw, hints |-> hints]]

(* "TITLE: A\nDESCRIPTION:\nx\nHINT_1: h" *)
Text1 ==
    join(<<TITLE_MARKER \o <<32, 65>>, DESCRIPTION_MARKER, <<120>>,
           HINT_PREFIX \o <<95, 49, 58, 32, 104>>>>, 10)

(* {"hint_1": " \t", "hint_2": "c"} *)
Hints1 == [k \in {"hint_1", "hint_2"} |->
              IF k = "hint_1" THEN Str(<<32, 9>>) ELSE Str(<<99>>)]

ParseResults ==
    {Ok(raw, hints) : raw \in Texts(ParseLines, MaxLines), hints \in {Hints1}}

HintsResults ==
    {Ok(raw, hints) : raw \in {<<>>, Text1}, hints \in HintMaps}

(* what generate_new_challenge may do: raise, return a dict lacking a     *)
(* field, or return raw and hints                                          *)
SmallResults ==
    { [raised |-> TRUE, value |-> EmptyDict],
      [raised |-> FALSE, value |-> [hints |-> Hints1]],
      [raised |-> FALSE, value |-> [raw |-> Text1]],
      Ok(Text1, Hints1),
      Ok(<<>>, EmptyDict) }

NoResult == [raised |-> FALSE, value |-> EmptyDict]

(* what get_challenge_feedback may do: raise, return None, return a str *)
Feedbacks ==
    { [raised |-> TRUE, text |-> None],
      [raised |-> FALSE, text |-> None],
      [raised |-> FALSE, text |-> Str(<<111, 107>>)] }

NoFeedback == [raised |-> FALSE, text |-> None]

(* request.user.username: "al", "bo" *)
Users == {<<97, 108>>, <<98, 111>>}

(* request.POST of generate_ai_challenge: 'difficulty' may be missing *)
GeneratePosts == {EmptyDict, [difficulty |-> "advanced"]}

(* a bound form: is_valid() and what form.save(commit=False) builds      *)
(* (titles "Q" and "", description "d", solution texts "s" and "")        *)
ChallengeForms ==
    { [valid |-> TRUE,
       data |-> [title |-> <<81>>, description |-> <<100>>,
                 difficulty |-> "beginner", hints |-> <<>>]],
      [valid |-> FALSE,
       data |-> [title |-> <<>>, description |-> <<100>>,
                 difficulty |-> "beginner", hints |-> <<>>]] }

SolutionForms ==
    { [valid |-> TRUE, data |-> [solution_text |-> <<115>>]],
      [valid |-> FALSE, data |-> [solution_text |-> <<>>]] }

NoForm == [valid |-> FALSE, data |-> EmptyDict]

Methods == {"GET", "POST"}

(* ------------------------------ state ---------------------------------- *)

VARIABLES
    pc,               \* "idle", or the position inside generate_ai_challenge
    request,          \* the request being (or last) handled
    outcome,          \* what the collaborators did during that request
    lines,            \* generate_ai_challenge: lines
    line_no,          \* generate_ai_challenge: position of the for loop
    title,            \* generate_ai_challenge: title
    description,      \* generate_ai_challenge: description
    current_section,  \* generate_ai_challenge: current_section
    ai_hints,         \* generate_ai_challenge: ai_hints
    challenge,        \* generate_ai_challenge: challenge (<<>> before it is built)
    challenges,       \* the Challenge table; pk is the position
    solutions,        \* the ChallengeSolution table
    messages,         \* messages added while handling the request
    response          \* what the view returned (or raised)

locals == <<lines, line_no, title, description, current_section, ai_hints, challenge>>

vars == <<pc, request, outcome, lines, line_no, title, description,
          current_section, ai_hints, challenge, challenges, solutions,
          messages, response>>

render(template) == [kind |-> "render", target |-> template, pk |-> 0]

redirect(to, pk) == [kind |-> "redirect", target |-> to, pk |-> pk]

raise(exc) == [kind |-> "raise", target |-> exc, pk |-> 0]

NoResponse == [kind |-> "none", target |-> "", pk |-> 0]

message(level, text) == [level |-> level, text |-> text]

NoRequest ==
    [view |-> "", method |-> "", user |-> <<>>, pk |-> 0,
     POST |-> EmptyDict, form |-> NoForm]

NoOutcome == [result |-> NoResult, feedback |-> NoFeedback, save |-> "none"]

NoLocals ==
    /\ lines = <<>>
    /\ line_no = 0
    /\ title = <<>>
    /\ description = <<>>
    /\ current_section = "None"
    /\ ai_hints = <<None, None, None>>
    /\ challenge = <<>>

Init ==
    /\ pc = "idle"
    /\ request = NoRequest
    /\ outcome = NoOutcome
    /\ NoLocals
    /\ challenges = <<>>
    /\ solutions = <<>>
    /\ messages = <<>>
    /\ response = NoResponse

(* the guard that keeps the tables finite *)
HasRoom == Len(challenges) + Len(solutions) < MaxRecords

(* what Model.save() may do: store the record, or raise *)
Saves == {"ok", "failed"}

(* ---------------------------- create_challenge ------------------------- *)

create_challenge ==
    /\ pc = "idle"
    /\ HasRoom
    /\ \E user \in Users, method \in Methods, form \in ChallengeForms :
       \E save \in (IF method = "POST" /\ form.valid THEN Saves ELSE {"none"}) :
         /\ request' = [view |-> "create_challenge", method |-> method,
                        user |-> user, pk |-> 0, POST |-> EmptyDict,
                        form |-> IF method = "POST" THEN form ELSE NoForm]
         /\ outcome' = [NoOutcome EXCEPT !.save = save]
         /\ IF method = "POST" /\ form.valid
            THEN IF save = "ok"
                 THEN /\ challenges' = Append(challenges,
                             [title |-> form.data.title,
                              description |-> form.data.description,
                              difficulty |-> form.data.difficulty,
                              hints |-> form.data.hints,
                              created_by |-> user,
                              is_ai_generated |-> FALSE,
                              is_approved |-> TRUE])
                      /\ messages' = <<message("success",
                                         "Your challenge has been created!")>>
                      /\ response' = redirect("challenge_detail",
                                              Len(challenges) + 1)
                 ELSE \* challenge.save() is not inside any try block
                      /\ challenges' = challenges
                      /\ messages' = <<>>
                      /\ response' = raise("Exception")
            ELSE /\ challenges' = challenges
                 /\ messages' = <<>>
                 /\ response' = render("challenges/create_challenge.html")
    /\ UNCHANGED <<pc, locals, solutions>>

(* ----------------------------- submit_solution ------------------------- *)

(* get_object_or_404(Challenge, pk=pk, is_approved=True) finds a row *)
approved(pk) == pk \in 1..Len(challenges) /\ challenges[pk].is_approved

(* the except branch around building and saving the solution *)
submit_solution_except ==
    <<message("error",
              "There was an error saving your solution. Please try again.")>>

submit_solution ==
    /\ pc = "idle"
    /\ HasRoom
    /\ \E user \in Users, method \in Methods, pk \in 1..MaxRecords,
          form \in SolutionForms :
       LET saving == approved(pk) /\ method = "POST" /\ form.valid
       IN
       \E feedback \in (IF saving THEN Feedbacks ELSE {NoFeedback}),
          save \in (IF saving THEN Saves ELSE {"none"}) :
         /\ request' = [view |-> "submit_solution", method |-> method,
                        user |-> user, pk |-> pk, POST |-> EmptyDict,
                        form |-> IF method = "POST" THEN form ELSE NoForm]
         /\ outcome' = [result |-> NoResult, feedback |-> feedback,
                        save |-> save]
         /\ IF ~approved(pk)
            THEN /\ response' = raise("Http404")
                 /\ messages' = <<>>
                 /\ solutions' = solutions
            ELSE /\ response' = redirect("challenge_detail", pk)
                 /\ IF method # "POST"
                    THEN messages' = <<>> /\ solutions' = solutions
                    ELSE IF ~form.valid
                    THEN /\ messages' = <<message("error",
                                   "Please correct the errors in the form.")>>
                         /\ solutions' = solutions
                    ELSE IF save = "ok"
                    THEN /\ solutions' = Append(solutions,
                               [challenge |-> pk,
                                user |-> user,
                                solution_text |-> form.data.solution_text,
                                is_correct |-> TRUE,
                                correctness_level |-> "correct",
                                ai_feedback |->
                                    ai_feedback_after(feedback, user)])
                         /\ messages' = <<message("success",
                              "Your solution has been submitted! Check out the AI feedback.")>>
                    ELSE /\ solutions' = solutions
                         /\ messages' = submit_solution_except
    /\ UNCHANGED <<pc, locals, challenges>>

(* -------------------------- generate_ai_challenge ---------------------- *)

(* do the statements from the generate_new_challenge call to the reading  *)
(* of result["raw"] and result["hints"] raise?                             *)
generate_raises(result) ==
    \/ result.raised
    \/ "raw" \notin DOMAIN result.value
    \/ "hints" \notin DOMAIN result.value

(* variant: the exception is not caught and leaves the view *)
generate_ai_challenge_except_reraise ==
    [messages |-> <<>>, response |-> raise("Exception")]

(* the except branch of generate_ai_challenge and the render after it *)
generate_ai_challenge_except ==
    [messages |-> <<message("error",
         "There was an error generating your challenge. Please try again.")>>,
     response |-> render("challenges/generate_challenge.html")]

(* request.POST.get('difficulty', 'beginner') *)
difficulty_of(post) ==
    IF "difficulty" \in DOMAIN post THEN post["difficulty"] ELSE "beginner"

generate_ai_challenge_GET ==
    /\ pc = "idle"
    /\ \E user \in Users :
         request' = [view |-> "generate_ai_challenge", method |-> "GET",
                     user |-> user, pk |-> 0, POST |-> EmptyDict,
                     form |-> NoForm]
    /\ outcome' = NoOutcome
    /\ messages' = <<>>
    /\ response' = render("challenges/generate_challenge.html")
    /\ UNCHANGED <<pc, locals, challenges, solutions>>

(* the method test, the AI call and the set-up of the loop *)
generate_ai_challenge_POST ==
    /\ pc = "idle"
    /\ HasRoom
    /\ \E user \in Users, post \in GeneratePosts, result \in SmallResults :
         /\ request' = [view |-> "generate_ai_challenge", method |-> "POST",
                        user |-> user, pk |-> 0, POST |-> post,
                        form |-> NoForm]
         /\ outcome' = [NoOutcome EXCEPT !.result = result]
         /\ IF generate_raises(result)
            THEN /\ pc' = "idle"
                 /\ messages' = generate_ai_challenge_except.messages
                 /\ response' = generate_ai_challenge_except.response
                 /\ UNCHANGED locals
            ELSE /\ pc' = "scan"
                 /\ messages' = <<>>
                 /\ response' = NoResponse
                 /\ ai_hints' = ai_hints_of(result.value)
                 /\ title' = <<>>
                 /\ description' = <<>>
                 /\ lines' = split(strip(result.value["raw"]), 10)
                 /\ line_no' = 1
                 /\ current_section' = "None"
                 /\ challenge' = <<>>
    /\ UNCHANGED <<challenges, solutions>>

(* one iteration of the for loop *)
scan_line ==
    /\ pc = "scan"
    /\ line_no <= Len(lines)
    /\ LET st == loop_body([title |-> title,
                            current_section |-> current_section,
                            description |-> description], lines[line_no])
       IN  /\ title' = st.title
           /\ current_section' = st.current_section
           /\ description' = st.description
    /\ line_no' = line_no + 1
    /\ UNCHANGED <<pc, request, outcome, lines, ai_hints, challenge,
                   challenges, solutions, messages, response>>

(* after the loop: the hints list and the Challenge object *)
build_challenge ==
    /\ pc = "scan"
    /\ line_no > Len(lines)
    /\ challenge' = <<new_ai_challenge(title, description,
                                       difficulty_of(request.POST),
                                       build_hints(ai_hints), request.user)>>
    /\ pc' = "save"
    /\ UNCHANGED <<request, outcome, lines, line_no, title, description,
                   current_section, ai_hints, challenges, solutions,
                   messages, response>>

(* challenge.save() and what follows it *)
save_challenge ==
    /\ pc = "save"
    /\ \E save \in Saves :
         /\ outcome' = [outcome EXCEPT !.save = save]
         /\ IF save = "ok"
            THEN /\ challenges' = Append(challenges, challenge[1])
                 /\ messages' = <<message("success",
                                    "Your AI challenge has been generated!")>>
                 /\ response' = redirect("challenge_detail",
                                         Len(challenges) + 1)
            ELSE /\ challenges' = challenges
                 /\ messages' = generate_ai_challenge_except.messages
                 /\ response' = generate_ai_challenge_except.response
    /\ pc' = "idle"
    /\ lines' = <<>>
    /\ line_no' = 0
    /\ title' = <<>>
    /\ description' = <<>>
    /\ current_section' = "None"
    /\ ai_hints' = <<None, None, None>>
    /\ challenge' = <<>>
    /\ UNCHANGED <<request, solutions>>

Next ==
    \/ create_challenge
    \/ submit_solution
    \/ generate_ai_challenge_GET
    \/ generate_ai_challenge_POST
    \/ scan_line
    \/ build_challenge
    \/ save_challenge

Spec == Init /\ [][Next]_vars

(* ---- the parser alone: a POST whose AI call returned raw and hints ---- *)

Parsing(Results) ==
    /\ pc = "scan"
    /\ \E user \in {<<97, 108>>}, post \in {EmptyDict}, result \in Results :
         /\ request = [view |-> "generate_ai_challenge", method |-> "POST",
                       user |-> user, pk |-> 0, POST |-> post,
                       form |-> NoForm]
         /\ outcome = [NoOutcome EXCEPT !.result = result]
         /\ ai_hints = ai_hints_of(result.value)
         /\ lines = split(strip(result.value["raw"]), 10)
    /\ title = <<>>
    /\ description = <<>>
    /\ line_no = 1
    /\ current_section = "None"
    /\ challenge = <<>>
    /\ challenges = <<>>
    /\ solutions = <<>>
    /\ messages = <<>>
    /\ response = NoResponse

InitParse == Parsing(ParseResults)

InitHints == Parsing(HintsResults)

NextParse ==
    \/ scan_line
    \/ build_challenge
    \/ save_challenge

SpecParse == InitParse /\ [][NextParse]_vars

SpecHints == InitHints /\ [][NextParse]_vars

(* ============================ properties =============================== *)

(* the AI response of the request being handled *)
raw_text == outcome.result.value["raw"]

hint_map == outcome.result.value["hints"]

(* the lines of raw_text as the parser sees them: split, each one trimmed *)
trimmed_lines == [i \in 1..Len(split(raw_text, 10)) |->
                     strip(split(raw_text, 10)[i])]

title_line_nos ==
    {i \in 1..Len(trimmed_lines) : startswith(trimmed_lines[i], TITLE_MARKER)}

last_title_line ==
    trimmed_lines[CHOOSE i \in title_line_nos : \A j \in title_line_nos : j <= i]

(* the loop is about to process, or has just processed, a line *)
scanning == pc = "scan" /\ line_no <= Len(lines)

(* the Challenge object of the request: built, or built and saved *)
built == pc = "save"

(* C1: for every raw_text and hint_map (empty, missing, None or blank    *)
(* entries included) the hints list built by generate_ai_challenge has    *)
(* exactly 3 entries and none of them is blank after trimming.            *)
C1_HintsTotal ==
    built =>
        /\ Len(challenge[1].hints) = 3
        /\ \A i \in 1..3 : strip(challenge[1].hints[i]) # <<>>

(* empty raw_text; hint_1 missing, hint_2 None, hint_3 whitespace only *)
C1_Witness ==
    /\ built
    /\ raw_text = <<>>
    /\ DOMAIN hint_map = {"hint_2", "hint_3"}
    /\ hint_map["hint_2"] = None
    /\ hint_map["hint_3"] = Str(<<32, 9>>)

(* a line may be part of the description under C2: it follows a          *)
(* DESCRIPTION: line with no HINT line in between, itself included         *)
before_first_hint(ls, n) ==
    \E d \in 1..(n - 1) :
        /\ startswith(strip(ls[d]), DESCRIPTION_MARKER)
        /\ \A k \in (d + 1)..n : ~startswith(strip(ls[k]), HINT_PREFIX)

(* C2: the description is made only of non-blank lines that follow a      *)
(* DESCRIPTION: line and come before the first later HINT line: no line   *)
(* that occurs after a HINT line is ever added to the description.        *)
C2_StopsAtHint ==
    [][(scanning /\ description' # description)
          => /\ strip(lines[line_no]) # <<>>
             /\ before_first_hint(lines, line_no)]_vars

(* C3: on a trimmed line starting with TITLE:, title becomes exactly the  *)
(* remainder of the line after the leading marker, trimmed, every other   *)
(* character kept (a further TITLE: inside the remainder too), and the    *)
(* current section becomes in_title.                                      *)
C3_TitleIsRemainder ==
    [][(scanning /\ line_no' = line_no + 1
          /\ startswith(strip(lines[line_no]), TITLE_MARKER))
          => LET line == strip(lines[line_no])
             IN  /\ title' = strip(SubSeq(line, Len(TITLE_MARKER) + 1,
                                          Len(line)))
                 /\ current_section' = "title"]_vars

(* C4: the title of the created challenge is never empty, and it is the   *)
(* placeholder "AI Generated Challenge" whenever no line of raw_text set  *)
(* a title.                                                                *)
C4_TitleNonEmpty ==
    /\ built =>
          /\ challenge[1].title # <<>>
          /\ title_line_nos = {} => challenge[1].title = default_title
    /\ (pc = "idle" /\ response.kind = "redirect") =>
          /\ challenges[response.pk].title # <<>>
          /\ title_line_nos = {} =>
                 challenges[response.pk].title = default_title

(* empty raw_text, the placeholder is the title *)
C4_Witness ==
    /\ pc = "idle"
    /\ response.kind = "redirect"
    /\ raw_text = <<>>
    /\ challenges[response.pk].title = default_title

(* the value hints[i] must have, from hint_map alone *)
expected_hint(i) ==
    IF /\ hint_key(i) \in DOMAIN hint_map
       /\ ~hint_map[hint_key(i)].isNone
       /\ strip(hint_map[hint_key(i)].s) # <<>>
    THEN strip(hint_map[hint_key(i)].s)
    ELSE default_hints[i]

(* C5: each slot i is the trimmed hint_map["hint_<i+1>"] when that entry  *)
(* is present and non-blank after trimming, and the default of slot i     *)
(* otherwise, whatever the other slots and raw_text are; the three        *)
(* defaults are pairwise distinct.                                        *)
C5_HintPerSlot ==
    built =>
        /\ \A i \in 1..3 : challenge[1].hints[i] = expected_hint(i)
        /\ \A i, j \in 1..3 : i # j => default_hints[i] # default_hints[j]

(* hint_1 blank, hint_2 given, hint_3 missing, with a non-empty raw_text *)
C5_Witness ==
    /\ built
    /\ raw_text = Text1
    /\ hint_map = Hints1
    /\ challenge[1].hints = <<default_hint_0, <<99>>, default_hint_2>>

(* the generate_new_challenge call of the request failed *)
generation_failed(o) ==
    o.result.raised \/ ~({"raw", "hints"} \subseteq DOMAIN o.result.value)

(* C6: when the generate_new_challenge call fails (raises, or returns a   *)
(* response lacking raw or hints) the failure is caught: no Challenge is  *)
(* created, an error message is reported and the view returns a normal    *)
(* response.                                                               *)
C6_GenerationFailureCaught ==
    [][(/\ pc = "idle"
        /\ request'.view = "generate_ai_challenge"
        /\ request'.method = "POST"
        /\ generation_failed(outcome'))
          => /\ challenges' = challenges
             /\ pc' = "idle"
             /\ Len(messages') = 1
             /\ messages'[1].level = "error"
             /\ response'.kind = "render"]_vars

(* a response lacking the raw field was handled *)
C6_Witness ==
    /\ pc = "idle"
    /\ request.view = "generate_ai_challenge"
    /\ request.method = "POST"
    /\ ~outcome.result.raised
    /\ "raw" \notin DOMAIN outcome.result.value
    /\ response.kind = "render"
    /\ challenges = <<>>

(* C7: in submit_solution with a valid form, when get_challenge_feedback  *)
(* fails and nothing else does, the solution is saved for that challenge  *)
(* and user with the fallback message as ai_feedback, the success message *)
(* is reported and the view redirects to the challenge detail page.       *)
C7_FeedbackFailureStillSaves ==
    [][(/\ pc = "idle"
        /\ request'.view = "submit_solution"
        /\ request'.method = "POST"
        /\ request'.form.valid
        /\ approved(request'.pk)
        /\ outcome'.feedback.raised
        /\ outcome'.save = "ok")
          => /\ Len(solutions') = Len(solutions) + 1
             /\ LET saved == solutions'[Len(solutions')]
                IN  /\ saved.challenge = request'.pk
                    /\ saved.user = request'.user
                    /\ saved.solution_text = request'.form.data.solution_text
                    /\ saved.ai_feedback =
                           fallback_prefix \o request'.user \o fallback_suffix
             /\ Len(messages') = 1
             /\ messages'[1].level = "success"
             /\ response' = redirect("challenge_detail", request'.pk)]_vars

(* a solution saved with the fallback message after the AI call raised *)
C7_Witness ==
    /\ pc = "idle"
    /\ request.view = "submit_solution"
    /\ outcome.feedback.raised
    /\ outcome.save = "ok"
    /\ solutions # <<>>
    /\ solutions[Len(solutions)].ai_feedback =
           fallback_prefix \o request.user \o fallback_suffix
    /\ response.kind = "redirect"

(* C8: at every call site that saves a record, a failure of the save is   *)
(* caught, reported to the user as an error message, and the view returns *)
(* a normal response: no persistence failure leaves a view.               *)
C8_SaveFailureCaught ==
    (pc = "idle" /\ outcome.save = "failed") =>
        /\ response.kind \in {"render", "redirect"}
        /\ \E i \in 1..Len(messages) : messages[i].level = "error"

(* what the parser takes from a TITLE: line *)
taken_from(line) == strip(replace(line, TITLE_MARKER, <<>>))

(* C9 as stated: with more than one TITLE: line, the resulting title is   *)
(* the one taken from the last such line.                                 *)
C9_LastTitleWins_Original ==
    (built /\ Cardinality(title_line_nos) > 1) =>
        challenge[1].title = taken_from(last_title_line)

(* C9: with more than one TITLE: line, the resulting title is the one     *)
(* taken from the last such line (no accumulation of earlier titles),     *)
(* wherever DESCRIPTION: and HINT lines are, or the placeholder           *)
(* "AI Generated Challenge" when the title taken from that line is empty. *)
C9_LastTitleWins ==
    (built /\ Cardinality(title_line_nos) > 1) =>
        challenge[1].title =
            IF taken_from(last_title_line) = <<>> THEN default_title
            ELSE taken_from(last_title_line)

(* two TITLE: lines with different titles around a DESCRIPTION: line; the *)
(* third line is "\u3000TITLE:\x0bB\xa0" and gives the title "B"           *)
C9_Witness ==
    /\ built
    /\ Len(trimmed_lines) = 3
    /\ trimmed_lines[1] = TITLE_MARKER \o <<32, 65>>
    /\ trimmed_lines[2] = DESCRIPTION_MARKER
    /\ trimmed_lines[3] = TITLE_MARKER \o <<11, 66>>
    /\ challenge[1].title = <<66>>

(* C10: in the pass over the lines the current section changes only on a  *)
(* TITLE: line (to in_title) or a DESCRIPTION: line (to in_description);  *)
(* a blank line changes neither the section, the title nor the            *)
(* description; any other non-marker line leaves the section and the      *)
(* title alone, and the description too unless the section is             *)
(* in_description and the line does not start with HINT.                  *)
C10_ScanFrame ==
    [][(scanning /\ line_no' = line_no + 1)
          => LET line == strip(lines[line_no])
                 is_title == startswith(line, TITLE_MARKER)
                 is_description == startswith(line, DESCRIPTION_MARKER)
                 is_hint == startswith(line, HINT_PREFIX)
             IN  /\ current_section' # current_section =>
                        \/ is_title /\ current_section' = "title"
                        \/ is_description /\ current_section' = "description"
                 /\ line = <<>> =>
                        UNCHANGED <<current_section, title, description>>
                 /\ (~is_title /\ ~is_description) =>
                        /\ UNCHANGED <<current_section, title>>
                        /\ (current_section # "description" \/ is_hint) =>
                               description' = description]_vars

(* a blank line was passed inside the description, then a line was added *)
C10_Witness ==
    /\ built
    /\ Len(lines) = 3
    /\ startswith(strip(lines[1]), DESCRIPTION_MARKER)
    /\ strip(lines[2]) = <<>>
    /\ challenge[1].description = <<120>>

====
